---- MODULE Spec2Model ----
(***************************************************************************)
(* Model of the retail SQL assistant's query pipeline:                     *)
(*   retail_ai/domain/guardrails.py      extraction, guardrails, rewriting *)
(*   retail_ai/adapters/llm_openrouter.py the model race                   *)
(*   retail_ai/services/query_service.py  run_query                        *)
(*                                                                         *)
(* A text is a sequence of tokens separated by whitespace.  A token is a   *)
(* tuple of strings:                                                       *)
(*   <<"w", x>>        the word or punctuation x, in its own letter case   *)
(*   <<"ref", a, c>>   the qualified reference a.c                         *)
(*   <<"lit", v>>      the quoted literal 'v'                              *)
(*   <<"cast", v, t>>  the cast literal 'v'::t                             *)
(* The regular expressions of the source are evaluated on tokens: \b is a  *)
(* token (or dot) boundary, \s+ the gap between two tokens.  An operator   *)
(* named F_ is the body of the function F, given the values F computes     *)
(* first.                                                                  *)
(***************************************************************************)
EXTENDS Integers, Sequences, FiniteSets, TLC

W(x) == <<"w", x>>
Ref(a, c) == <<"ref", a, c>>
Lit(v) == <<"lit", v>>
Cast(v, t) == <<"cast", v, t>>

\* A sequence of plain words as a text.
Ws(xs) == [i \in 1..Len(xs) |-> W(xs[i])]

\* Python's None, where a function returns a text or None.
None == <<<<"none">>>>
Empty == <<>>

Min(S) == CHOOSE x \in S : \A y \in S : x <= y
Max(S) == CHOOSE x \in S : \A y \in S : x >= y

\* Index of the first match among the indices S, 0 if there is none.
FirstIdx(S) == IF S = {} THEN 0 ELSE Min(S)

\* What ensure_store_filter can join to a "where": the column or an alias.
GlueTails == {"store_id", "s", "p", "x", "z", "pa", "t", "v", "where", "join"}

\* The words of the model's texts that have an upper-case letter, with
\* their lower-case forms.
UpperWords ==
    {<<"SELECT", "select">>, <<"FROM", "from">>, <<"WHERE", "where">>,
     <<"WHERE(", "where(">>, <<"DROP", "drop">>, <<"Copy", "copy">>,
     <<"LIMIT", "limit">>, <<"AND", "and">>, <<"COUNT", "count">>,
     <<"DISTINCT", "distinct">>, <<"CURRENT_DATE", "current_date">>,
     <<"P", "p">>, <<"Brand", "brand">>, <<"<fence>SQL", "<fence>sql">>,
     <<"S", "s">>, <<"STORE_ID", "store_id">>}
    \cup {<<"WHERE" \o y, "where" \o y>> : y \in GlueTails}

LowerMap == [x \in {p[1] : p \in UpperWords} |-> (CHOOSE p \in UpperWords : p[1] = x)[2]]

\* str.lower(), on a word, a token (its tag is lower-case) and a text.
Lower(x) == IF x \in DOMAIN LowerMap THEN LowerMap[x] ELSE x
LowTok(t) == [k \in 1..Len(t) |-> Lower(t[k])]
LowText(s) == [i \in 1..Len(s) |-> LowTok(s[i])]

\* The words inside the text x of a plain token, as \b delimits them.
Parts(x) ==
    CASE x = "now()" -> {"now"}
      [] x = "where(" -> {"where"}
      [] x = "current_timestamp::date" -> {"current_timestamp", "date"}
      [] OTHER -> {x}

\* The words of a token that a \bword\b pattern can match.
WordsOf(t) ==
    CASE t[1] = "w" -> Parts(t[2])
      [] t[1] = "ref" -> {t[2], t[3]}
      [] t[1] = "lit" -> {t[2]}
      [] OTHER -> {t[3]}

HasWord(s, x) == \E i \in 1..Len(s) : x \in WordsOf(s[i])

\* Words that do not start with a letter, so [a-z][a-z0-9_]* cannot match them.
NonIdent == {"*", "=", "(", ")", ";", ";--", ",", "1", "200", "<fence>", "<fence>sql"}

\* The word that ends token t and is followed by whitespace ("" if none).
LastWord(t) ==
    CASE t[1] = "w" -> (CASE t[2] \in {"now()", "where("} -> ""
                          [] t[2] = "current_timestamp::date" -> "date"
                          [] OTHER -> t[2])
      [] t[1] = "ref" -> t[3]
      [] OTHER -> ""

\* What ([a-z][a-z0-9_]*) captures at the start of token t ("" if nothing).
IdentPrefix(t) ==
    CASE t[1] = "w" -> (CASE t[2] \in NonIdent -> ""
                          [] t[2] = "now()" -> "now"
                          [] t[2] = "where(" -> "where"
                          [] t[2] = "current_timestamp::date" -> "current_timestamp"
                          [] OTHER -> t[2])
      [] t[1] = "ref" -> t[2]
      [] OTHER -> ""

\* The token whose start the group of  \s+(?:as\s+)?([a-z][a-z0-9_]*)
\* captures after token i of the lower-cased text s; 0 when the pattern
\* does not match there.  An "as" is skipped only when an identifier follows.
AliasIdx(s, i) ==
    IF i + 2 <= Len(s) /\ s[i+1] = W("as") /\ IdentPrefix(s[i+2]) # "" THEN i + 2
    ELSE IF i + 1 <= Len(s) /\ IdentPrefix(s[i+1]) # "" THEN i + 1
    ELSE 0

(***************************************************************************)
(* settings.py                                                             *)
(***************************************************************************)
BAD_KEYWORDS ==
    {"update", "delete", "insert", "alter", "drop", "grant", "revoke",
     "truncate", "create", "copy", "call", "execute", "prepare", "deallocate",
     "explain", "vacuum", "analyze", "listen", "notify", ";--"}

ALLOW_VIEWS == <<"v_sales_daily", "v_promos_active">>
ALLOW_TABLES == <<"stores", "brands", "products", "promotions", "sales_transactions">>

\* The views followed by the tables, in the order the code iterates them.
AllowedObjects == ALLOW_VIEWS \o ALLOW_TABLES

COLUMNS(obj) ==
    CASE obj = "v_sales_daily" ->
           {"date", "promo_week_start_wed", "store_id", "article_no", "product_name",
            "brand", "category", "sub_category", "regular_price", "order_multiple",
            "base_demand", "is_high_velocity", "units_sold", "sale_price", "is_promo",
            "discount_pct", "promo_channel", "has_endcap", "on_promo_bay", "price_ratio"}
      [] obj = "v_promos_active" ->
           {"promo_id", "article_no", "store_id", "start_date", "end_date", "active_date",
            "offer_type", "discount_pct", "promo_channel", "has_endcap", "on_promo_bay",
            "brand", "category", "sub_category"}
      [] obj = "sales_transactions" ->
           {"date", "store_id", "article_no", "units_sold", "sale_price", "is_promo",
            "promo_id"}
      [] obj = "stores" ->
           {"store_id", "store_name", "region", "store_type", "opening_date",
            "store_area_sqm"}
      [] obj = "brands" -> {"brand", "category", "sub_category", "promo_allowed"}
      [] obj = "products" ->
           {"article_no", "product_name", "brand", "category", "sub_category",
            "regular_price", "order_multiple", "base_demand", "is_high_velocity"}
      [] obj = "promotions" ->
           {"promo_id", "article_no", "store_id", "start_date", "end_date", "offer_type",
            "discount_pct", "promo_channel", "has_endcap", "on_promo_bay", "brand",
            "category", "sub_category"}
      [] OTHER -> {}

(***************************************************************************)
(* domain/guardrails.py: extraction and the guardrails                     *)
(***************************************************************************)

\* The fence tokens are <fence>sql (any case) and <fence>; strip() is the
\* identity on a token sequence.
FenceCloses(low, i) ==
    {j \in (i+1)..Len(low) : low[j] \in {W("<fence>"), W("<fence>sql")}}

\* extract_sql with the two searches in the other order.
extract_sql_SelectFirst(text, low, open, sel) ==
    IF sel # 0 THEN SubSeq(text, sel, Len(text))
    ELSE IF open # 0 THEN SubSeq(text, open + 1, Min(FenceCloses(low, open)) - 1)
    ELSE None

\* extract_sql, given the first match of r"```sql(.*?)```" (open, 0 if none)
\* and the first match of r"\bselect\b.*" (sel, 0 if none).
extract_sql_(text, low, open, sel) ==
    IF open # 0 THEN SubSeq(text, open + 1, Min(FenceCloses(low, open)) - 1)
    ELSE IF sel # 0 THEN SubSeq(text, sel, Len(text))
    ELSE None

ExtractLow(text, low) ==
    extract_sql_(text, low,
        FirstIdx({i \in 1..Len(low) : low[i] = W("<fence>sql") /\ FenceCloses(low, i) # {}}),
        FirstIdx({i \in 1..Len(low) : "select" \in WordsOf(low[i])}))

extract_sql(text) == ExtractLow(text, LowText(text))

\* low.startswith("select") or low.startswith("with"): a prefix test on the
\* first characters, so a longer first word passes as well.
StartsSelectOrWith(t) ==
    t[1] \in {"w", "ref"} /\ t[2] \in {"select", "with", "selected", "within"}

\* ";" in s
HasSemicolon(t) == t[1] = "w" /\ t[2] \in {";", ";--"}

\* s.endswith(";") and s[:-1].rstrip()
StripTerminator(s) ==
    IF Len(s) > 0 /\ s[Len(s)] = W(";") THEN SubSeq(s, 1, Len(s) - 1) ELSE s

looks_select_only_(s) ==
    IF ~(Len(s) > 0 /\ StartsSelectOrWith(LowTok(s[1]))) THEN FALSE
    ELSE IF \E i \in 1..Len(s) : HasSemicolon(s[i]) THEN FALSE
    ELSE TRUE

\* looks_select_only without lines 18-19.
looks_select_only_WithoutTrim(sql) == looks_select_only_(sql)

looks_select_only(sql) == looks_select_only_(StripTerminator(sql))

contains_bad_(s) ==
    IF HasWord(s, ";--") THEN TRUE
    ELSE IF \E i \in 1..Len(s) : WordsOf(s[i]) \cap (BAD_KEYWORDS \ {";--"}) # {} THEN TRUE
    ELSE IF HasWord(s, "copy") THEN TRUE
    ELSE FALSE

\* contains_bad without the sql.lower() of line 29.
contains_bad_CaseSensitive(sql) == contains_bad_(sql)

contains_bad(sql) == contains_bad_(LowText(sql))

mentions_allowed_objects_(s) ==
    \E i \in 1..Len(s) : WordsOf(s[i]) \cap {AllowedObjects[k] : k \in 1..Len(AllowedObjects)} # {}

mentions_allowed_objects(sql) == mentions_allowed_objects_(LowText(sql))

\* re.finditer(rf"\b{obj}\b\s+(?:as\s+)?([a-z][a-z0-9_]*)", low): the indices
\* of the alias tokens of the non-overlapping matches from token i on.
RECURSIVE AliasMatches(_, _, _)
AliasMatchesFrom(low, obj, i, a) ==
    IF LastWord(low[i]) = obj /\ a # 0
    THEN {a} \cup AliasMatches(low, obj, a + 1)
    ELSE AliasMatches(low, obj, i + 1)

AliasMatches(low, obj, i) ==
    IF i > Len(low) THEN {} ELSE AliasMatchesFrom(low, obj, i, AliasIdx(low, i))

\* alias_of, as the set of its <<alias, object index>> entries before the
\* dict overwrites: the entry with the last object counts.
AliasEntries(low) ==
    UNION {{<<IdentPrefix(low[j]), k>> : j \in AliasMatches(low, AllowedObjects[k], 1)} :
              k \in 1..Len(AllowedObjects)}

alias_of_(entries, alias) ==
    AllowedObjects[Max({e[2] : e \in {x \in entries : x[1] = alias}})]

\* The alias.column references r"\b([a-z][a-z0-9_]*)\.(\*|[a-z][a-z0-9_]*)\b"
\* finds.  "a.*" followed by whitespace has no word boundary after the star,
\* so the pattern does not match it.
ColumnRefs(low) ==
    {<<low[i][2], low[i][3]>> : i \in {j \in 1..Len(low) : low[j][1] = "ref" /\ low[j][3] # "*"}}

\* bad_refs of columns_exist, as a set.
BadRefs_(entries, refs) ==
    {IF r[1] \notin {e[1] : e \in entries} THEN <<"Undefined alias", r[1], "">>
     ELSE <<"not in", r[1], r[2]>> :
        r \in {x \in refs : \/ x[1] \notin {e[1] : e \in entries}
                            \/ x[2] \notin COLUMNS(alias_of_(entries, x[1]))}}

BadRefsLow(low) == BadRefs_(AliasEntries(low), ColumnRefs(low))
BadRefs(sql) == BadRefsLow(LowText(sql))

columns_exist(sql) == BadRefs(sql) = {}

\* The guardrail stages with the blocklist asked before the shape.
FirstFailingStage_BlocklistFirst(sql) ==
    IF contains_bad(sql) THEN "blocklist"
    ELSE IF ~looks_select_only(sql) THEN "shape"
    ELSE IF ~mentions_allowed_objects(sql) THEN "objects"
    ELSE IF ~columns_exist(sql) THEN "columns"
    ELSE ""

\* The four guardrail stages in the order of run_query lines 40-48: the
\* first that rejects sql, "" when all pass.
FirstFailingStage(sql) ==
    IF ~looks_select_only(sql) THEN "shape"
    ELSE IF contains_bad(sql) THEN "blocklist"
    ELSE IF ~mentions_allowed_objects(sql) THEN "objects"
    ELSE IF ~columns_exist(sql) THEN "columns"
    ELSE ""

\* gr.extract_sql(text) or ""
OrEmpty(e) == IF e = None THEN Empty ELSE e
Candidate(text) == OrEmpty(extract_sql(text))

\* grounding_score with the column check as a fourth term.
grounding_score_WithColumns(sql) ==
    IF sql = Empty THEN 0
    ELSE 1 + (IF looks_select_only(sql) THEN 1 ELSE 0)
           + (IF mentions_allowed_objects(sql) THEN 1 ELSE 0)
           + (IF columns_exist(sql) THEN 1 ELSE 0)

grounding_score_(sql) ==
    IF sql = Empty THEN 0
    ELSE 1 + (IF looks_select_only(sql) THEN 1 ELSE 0)
           + (IF mentions_allowed_objects(sql) THEN 1 ELSE 0)

grounding_score(answer) == grounding_score_(Candidate(answer))

(***************************************************************************)
(* domain/guardrails.py: the rewriters and the deterministic fixer         *)
(***************************************************************************)

\* re.search(r"\bstore_id\s*=\s*'[^']*'", s_low)
HasStorePredicate(low) ==
    \E i \in 1..(Len(low) - 2) :
        /\ LastWord(low[i]) = "store_id"
        /\ low[i+1] = W("=")
        /\ low[i+2][1] \in {"lit", "cast"}

\* re.search(r"\bfrom\s+<obj>\s+(?:as\s+)?([a-zA-Z][a-zA-Z0-9_]*)", s_low):
\* the index of the alias token of the first match, 0 if there is none.
FromAliasIdx(low, obj) ==
    FirstIdx({AliasIdx(low, i + 1) :
                 i \in {j \in 1..(Len(low) - 1) :
                           /\ LastWord(low[j]) = "from"
                           /\ low[j+1] = W(obj)
                           /\ AliasIdx(low, j + 1) # 0}})

\* Lines 74-79: the alias of v_sales_daily, else of sales_transactions, ""
\* for None.
AliasAt(low, v, t) ==
    IF v # 0 THEN IdentPrefix(low[v]) ELSE IF t # 0 THEN IdentPrefix(low[t]) ELSE ""

\* re.search(r"\b(group\s+by|having|order\s+by|limit)\b", s_low) at token i
TailKeywordAt(low, i) ==
    \/ WordsOf(low[i]) \cap {"having", "limit"} # {}
    \/ /\ LastWord(low[i]) \in {"group", "order"}
       /\ i + 1 <= Len(low)
       /\ low[i+1][1] \in {"w", "ref"} /\ low[i+1][2] = "by"

\* Line 80: pred.
StorePredicate(alias, store_id) ==
    IF alias # "" THEN <<Ref(alias, "store_id"), W("="), Lit(store_id)>>
    ELSE <<W("store_id"), W("="), Lit(store_id)>>

\* The first token of pred joined to the word that ends with "where".
Glued(word, first) ==
    IF first[1] = "ref" THEN Ref(word \o first[2], first[3]) ELSE W(word \o first[2])

\* The text of a plain token up to the end of the match of \bwhere\b.
WhereWord(x) == IF x = "WHERE(" THEN "WHERE" ELSE IF x = "where(" THEN "where" ELSE x

\* Lines 83-87: prefix + f"{sep}{pred} AND (" + tail.lstrip() + ")" for the
\* match of \bwhere\b in the plain token i.  sep is "" exactly when
\* whitespace follows the match, and that whitespace is stripped from the
\* tail, so the first word of pred is joined to the "where".  In a "where("
\* token no whitespace follows the match: sep is " " and the parenthesis
\* starts the tail.  With nothing after the match sep is " " as well.
InsertAfterWhere(original, i, pred) ==
    IF Lower(original[i][2]) = "where("
    THEN SubSeq(original, 1, i - 1) \o <<W(WhereWord(original[i][2]))>> \o pred
         \o <<W("AND"), W("("), W("(")>> \o SubSeq(original, i + 1, Len(original))
         \o <<W(")")>>
    ELSE IF i = Len(original)
    THEN original \o pred \o <<W("AND"), W("("), W(")")>>
    ELSE SubSeq(original, 1, i - 1) \o <<Glued(original[i][2], pred[1])>> \o Tail(pred)
         \o <<W("AND"), W("(")>> \o SubSeq(original, i + 1, Len(original)) \o <<W(")")>>

\* Lines 81-94, given pred and the matches of \bwhere\b and of the tail
\* keywords (0 if none).
ensure_store_filter_(original, pred, where_match, tail_kw) ==
    IF where_match # 0 THEN InsertAfterWhere(original, where_match, pred)
    ELSE IF tail_kw # 0
    THEN SubSeq(original, 1, tail_kw - 1) \o <<W("WHERE")>> \o pred
         \o SubSeq(original, tail_kw, Len(original))
    ELSE original \o <<W("WHERE")>> \o pred

StoreFilterLow(original, s_low, store_id) ==
    IF HasStorePredicate(s_low) THEN original
    ELSE ensure_store_filter_(original,
            StorePredicate(AliasAt(s_low, FromAliasIdx(s_low, "v_sales_daily"),
                                   FromAliasIdx(s_low, "sales_transactions")), store_id),
            FirstIdx({i \in 1..Len(s_low) : s_low[i][1] = "w" /\ "where" \in WordsOf(s_low[i])}),
            FirstIdx({i \in 1..Len(s_low) : TailKeywordAt(s_low, i)}))

\* ensure_store_filter without the sql.lower() of line 71.
ensure_store_filter_CaseSensitive(sql, store_id) == StoreFilterLow(sql, sql, store_id)

ensure_store_filter(sql, store_id) == StoreFilterLow(sql, LowText(sql), store_id)

\* default_limit of ensure_limit, as it is printed.
DefaultLimit == "200"

\* r"\bgroup\s+by\b|\bsum\s*\(|\bavg\s*\(|\bcount\s*\(|\bmax\s*\(|\bmin\s*\("
LooksAggregate(low) ==
    \E i \in 1..(Len(low) - 1) :
        \/ LastWord(low[i]) = "group" /\ low[i+1][1] \in {"w", "ref"} /\ low[i+1][2] = "by"
        \/ LastWord(low[i]) \in {"sum", "avg", "count", "max", "min"} /\ low[i+1] = W("(")

\* ensure_limit without the aggregate heuristic of lines 109-110.
ensure_limit_WithoutAggregates(s, low) ==
    IF HasWord(low, "limit") THEN s
    ELSE StripTerminator(s) \o <<W("LIMIT"), W(DefaultLimit)>>

ensure_limit_(s, low) ==
    IF HasWord(low, "limit") THEN s
    ELSE IF LooksAggregate(low) THEN s
    ELSE StripTerminator(s) \o <<W("LIMIT"), W(DefaultLimit)>>

ensure_limit(sql) == ensure_limit_(sql, LowText(sql))

\* The substitutions of replace_current_date on one word in lower case:
\* current_date, now(), current_timestamp, the last also inside
\* current_timestamp::date, which it reaches before the cast pattern does.
AnchorWord(t, low, base_date) ==
    CASE low = "current_date" -> Cast(base_date, "date")
      [] low = "now()" -> Cast(base_date, "timestamp")
      [] low = "current_timestamp" -> Cast(base_date, "timestamp")
      [] low = "current_timestamp::date" -> Cast(base_date, "timestamp::date")
      [] OTHER -> t

\* The substitutions without flags=re.I.
AnchorTok_CaseSensitive(t, base_date) ==
    IF t[1] = "w" THEN AnchorWord(t, t[2], base_date) ELSE t

AnchorTok(t, base_date) == IF t[1] = "w" THEN AnchorWord(t, Lower(t[2]), base_date) ELSE t

\* return s if s != sql else None
ChangedOrNone(s, sql) == IF s # sql THEN s ELSE None

\* base_date "" stands for None: both are falsy.
replace_current_date(sql, base_date) ==
    IF base_date = "" THEN sql
    ELSE ChangedOrNone([i \in 1..Len(sql) |-> AnchorTok(sql[i], base_date)], sql)

\* if replaced: safe_sql = replaced
OrKeep(replaced, safe_sql) ==
    IF replaced # None /\ replaced # Empty THEN replaced ELSE safe_sql

Anchored(safe_sql, data_end_date) ==
    OrKeep(replace_current_date(safe_sql, data_end_date), safe_sql)

\* query_service.py lines 51-55, 63-67 and 86-90: the rewrite stage.
Rewrite(sql, store_id, data_end_date) ==
    Anchored(ensure_limit(ensure_store_filter(sql, store_id)), data_end_date)

\* re.search(r"\b<a>\b.*\b<b>\b", s, re.I | re.S)
WordThenWord(low, a, b) ==
    \E i \in 1..Len(low) : \E j \in i..Len(low) :
        /\ a \in WordsOf(low[i]) /\ b \in WordsOf(low[j])
        /\ (i = j => low[i] = Ref(a, b))

\* The matches of r"\bcount\s*\(\s*distinct\s*s\.promo_id\s*\)" start here.
PromoCountAt(low, i) ==
    /\ i + 4 <= Len(low)
    /\ low[i] = W("count")
    /\ low[i+1] = W("(")
    /\ low[i+2] = W("distinct")
    /\ low[i+3] = Ref("s", "promo_id")
    /\ low[i+4] = W(")")

\* re.sub(<that pattern>, "COUNT(DISTINCT pa.promo_id)", s, flags=re.I)
RECURSIVE SubPromoCount(_, _, _)
SubPromoCount(s, low, i) ==
    IF i > Len(s) THEN <<>>
    ELSE IF PromoCountAt(low, i)
         THEN <<W("COUNT"), W("("), W("DISTINCT"), Ref("pa", "promo_id"), W(")")>>
              \o SubPromoCount(s, low, i + 5)
         ELSE <<s[i]>> \o SubPromoCount(s, low, i + 1)

\* re.sub(r"\bp\.brand\b", "s.brand", s, flags=re.I)
SubBrand(s, low) ==
    [i \in 1..Len(s) |-> IF low[i] = Ref("p", "brand") THEN Ref("s", "brand") ELSE s[i]]

PromoError == "column s.promo_id does not exist"

\* Lines 148-151: the second fix, on the text the first fix left.
BrandFix(s, low) ==
    IF (\E i \in 1..Len(low) : low[i] = Ref("p", "brand")) /\ WordThenWord(low, "v_sales_daily", "s")
    THEN SubBrand(s, low) ELSE s

\* Lines 144-147: the first fix.
PromoFix(s, low, err) ==
    IF err = PromoError /\ WordThenWord(low, "v_promos_active", "pa")
    THEN SubPromoCount(s, low, 1) ELSE s

BrandFixOf(s) == BrandFix(s, LowText(s))

\* None stands for the None the function returns when no fix applied.
repair_known_errors(sql, db_error_text) ==
    ChangedOrNone(BrandFixOf(PromoFix(sql, LowText(sql), db_error_text)), sql)

(***************************************************************************)
(* Inputs: the answers a provider can give, the errors the database can    *)
(* raise, the caller's arguments.                                          *)
(***************************************************************************)
Fenced(sql) == <<W("<fence>sql")>> \o sql \o <<W("<fence>")>>

Q_plain == Ws(<<"select">>) \o <<Ref("s", "store_id")>> \o Ws(<<"from", "stores", "s">>)
Q_semi == Ws(<<"SELECT", "*", "FROM", "stores", "WHERE", "region", "=">>) \o <<Lit("north")>>
          \o Ws(<<";">>)
Q_join == Ws(<<"select", "*", "from", "stores", "s", "join", "secrets", "x", "where",
               "opened", "=", "CURRENT_DATE">>)
Q_brand == Ws(<<"select">>) \o <<Ref("p", "brand")>>
           \o Ws(<<"from", "v_sales_daily", "s", "join", "products", "p">>)
Q_brand_semi == Q_brand \o Ws(<<"where">>) \o <<Ref("s", "is_promo")>> \o Ws(<<"=", "1", ";">>)
Q_multi == Ws(<<"select", "*", "from", "stores", ";", "DROP", "table", "stores">>)
Q_block == Ws(<<"select", "*", "from", "stores", "where", "region", "=">>) \o <<Lit("DROP")>>
Q_obj == Ws(<<"select", "*", "from", "secrets">>)
Q_col == Ws(<<"select">>) \o <<Ref("z", "foo")>> \o Ws(<<"from", "stores", "s">>)
Q_other == Ws(<<"select", "*", "from", "stores", "where", "store_id", "=">>) \o <<Lit("S002")>>
Q_brand_stores == Ws(<<"select">>) \o <<Ref("p", "brand")>>
                  \o Ws(<<"from", "v_sales_daily", "v", "join", "products", "p", "join",
                          "stores", "s">>)

\* Texts for the guardrails functions applied on their own.
T_where == Ws(<<"select", "*", "from", "stores", "where", "region", "=">>) \o <<Lit("north")>>
T_scoped == Ws(<<"select", "*", "from", "v_sales_daily", "s", "where">>)
            \o <<Ref("S", "STORE_ID")>> \o Ws(<<"=">>) \o <<Lit("S002")>>
T_limit == Ws(<<"select", "*", "from", "stores", "limit", "200">>)
T_count == Ws(<<"select", "COUNT", "(", "*", ")", "from", "stores">>)
T_group == Ws(<<"select", "region", "from", "stores", "group", "by", "region", ";">>)
T_two_semi == Ws(<<"select", "*", "from", "stores", ";", ";">>)
T_date == Ws(<<"SELECT", "*", "FROM", "v_sales_daily", "WHERE", "date", "=", "CURRENT_DATE">>)
T_date_low == Ws(<<"select", "*", "from", "stores", "s", "where", "opening_date", "=",
                   "current_date">>)
T_now == Ws(<<"select", "now()", ",", "current_timestamp", "from", "stores">>)
T_cast == Ws(<<"select", "current_timestamp::date", "from", "stores">>)
T_trunc == Ws(<<"select", "date_trunc", "(">>) \o <<Lit("day")>>
           \o Ws(<<",", "now()", ")", "from", "stores">>)
T_with == Ws(<<"with", "t", "as", "(", "select", "*", "from", "stores", ")", "select", "*",
               "from", "t">>)
T_insert == Ws(<<"insert", "into", "stores", "select", "*", "from", "stores">>)
T_selected == Ws(<<"selected", "from", "stores">>)
T_semi_only == Ws(<<";">>)
T_star == Ws(<<"select">>) \o <<Ref("z", "*")>> \o Ws(<<"from", "stores", "s">>)
T_problems == Ws(<<"select">>) \o <<Ref("s", "foo"), W(","), Ref("z", "a"), W(","), Ref("z", "a")>>
              \o Ws(<<"from", "stores", "s">>)
T_qualified == Ws(<<"select">>) \o <<Ref("stores", "store_id")>> \o Ws(<<"from", "stores">>)
T_cte == Ws(<<"with", "t", "as", "(", "select", "*", "from", "stores", ")", "select">>)
         \o <<Ref("t", "store_id")>> \o Ws(<<"from", "t">>)
T_order == Ws(<<"select", "region", "from", "stores", "where", "region", "=">>)
           \o <<Lit("north")>> \o Ws(<<"order", "by", "region">>)
T_or == Ws(<<"select", "*", "from", "stores", "where", "region", "=">>) \o <<Lit("north")>>
        \o Ws(<<"or", "region", "=">>) \o <<Lit("south")>>

Texts ==
    {Q_plain, Q_semi, Q_join, Q_brand, Q_brand_semi, Q_multi, Q_block, Q_obj, Q_col, Q_other,
     T_where, T_scoped, T_limit, T_count, T_group, T_two_semi, T_date, T_date_low, T_now,
     T_cast, T_trunc, T_with, T_insert, T_selected, T_semi_only, T_star, T_problems,
     T_qualified, T_cte, T_order, T_or, Empty}

A_none == Ws(<<"Sorry", ",", "I", "cannot", "answer">>)
A_empty == Fenced(Empty)

\* What a provider may answer to the question.
Answers ==
    {A_none, A_empty, Fenced(Q_semi), Fenced(Q_join), Fenced(Q_brand),
     Fenced(Q_brand_semi), Fenced(Q_multi), Fenced(Q_block), Fenced(Q_obj), Fenced(Q_col),
     Fenced(Q_other), Fenced(Q_brand_stores)}

\* What a provider may answer to the repair request.
RepairAnswers == {A_none, Fenced(Q_plain), Fenced(Q_col), Fenced(Q_block)}

\* Error texts the Execution Gateway may raise.
DbErrors == {PromoError, "canceling statement due to statement timeout"}

\* get_data_end_date: a date text, or "" for None.
EndDates == {"", "2024-12-01"}

\* app.py fixes the store of the session.
StoreId == "S001"

\* settings.MODELS, two of its entries standing for the list, in list order:
\* a priced model and a free one.  price is the cost of one answer; latency
\* is the time the provider takes to answer, in abstract units.
MODELS ==
    <<[id |-> "nousresearch/hermes-4-405b", price |-> 2, latency |-> 1],
      [id |-> "deepseek/deepseek-chat-v3.1:free", price |-> 0, latency |-> 2]>>

Units == 1..Len(MODELS)

\* len(backoffs) in call_openrouter_sync.
BackoffCount == 3

(***************************************************************************)
(* State                                                                   *)
(***************************************************************************)
VARIABLES
    pc,            \* position of run_query
    winner_pref,   \* argument of run_query
    races,         \* try_models calls started by this run_query
    unit,          \* per model: the state of its _call_model task
    winner,        \* winner of the first race
    trials,        \* results of the first race
    repaired,      \* winner of the repair race
    sql,           \* extracted candidate
    safe_sql,      \* rewritten statement
    data_end_date, \* anchor date, "" for None
    err,           \* error text of the first execution
    retry,         \* fixed_once / repaired_sql: the candidate that passed the
                   \* handler's check and the statement rewritten from it
    executed,      \* statements handed to dbx.run_sql, in order
    fixes,         \* calls of repair_known_errors
    failure,       \* the exception run_query ended with
    logged,        \* calls of dbx.log_run, in order
    result,        \* the QueryResult returned
    applied,       \* one guardrails function applied on its own
    messages,      \* the messages handed to the last try_models call
    client         \* per model: one call_openrouter_sync call on its own

vars == <<pc, winner_pref, races, unit, winner, trials, repaired, sql, safe_sql,
          data_end_date, err, retry, executed, fixes, failure, logged, result,
          applied, messages, client>>

NoTrial == [model |-> "", text |-> Empty, latency_ms |-> 0, cost_usd |-> 0, score |-> 0]
NoFailure == [kind |-> "", detail |-> ""]
NoResult == [sql |-> Empty, trials |-> <<>>, winner |-> NoTrial, data_end_date |-> ""]
NoRetry == [cand |-> Empty, stmt |-> Empty]
IdleUnit == [st |-> "idle", attempts |-> 0, text |-> Empty]
NoApplication ==
    [f |-> "", arg |-> Empty, base_date |-> "", out |-> Empty, again |-> Empty, ok |-> FALSE,
     score |-> 0, problems |-> {}]

\* One message of the chat: its role, its prose and the statement it quotes.
Message(role, text, quoted) == [role |-> role, text |-> text, quoted |-> quoted]

\* A call_openrouter_sync that has not started: the loop index i, the POST
\* requests sent, the transport errors caught, the sleeps taken and how the
\* call ended.
NoCall == [st |-> "idle", i |-> 0, posts |-> 0, errors |-> 0, slept |-> <<>>, ended |-> ""]

Init ==
    /\ pc = "start"
    /\ winner_pref \in {"cheapest", "fastest"}
    /\ races = 0
    /\ unit = [m \in Units |-> IdleUnit]
    /\ winner = NoTrial
    /\ trials = <<>>
    /\ repaired = NoTrial
    /\ sql = Empty
    /\ safe_sql = Empty
    /\ data_end_date = ""
    /\ err = ""
    /\ retry = NoRetry
    /\ executed = <<>>
    /\ fixes = 0
    /\ failure = NoFailure
    /\ logged = <<>>
    /\ result = NoResult
    /\ applied = NoApplication
    /\ messages = <<>>
    /\ client = [m \in Units |-> NoCall]

(***************************************************************************)
(* adapters/llm_openrouter.py                                              *)
(***************************************************************************)

\* The task list of try_models: one _call_model per model, all started.
StartedUnits == [m \in Units |-> [st |-> "running", attempts |-> 0, text |-> Empty]]

\* The answers a provider may give in the race under way.
AnswerPool == IF races = 1 THEN Answers ELSE RepairAnswers

\* call_openrouter_sync: attempt i raises a transport error with a backoff
\* left: sleep and try again.
AttemptRetries(m) ==
    /\ unit[m].st = "running"
    /\ unit[m].attempts < BackoffCount
    /\ unit' = [unit EXCEPT ![m].attempts = @ + 1]
    /\ UNCHANGED <<pc, winner_pref, races, winner, trials, repaired, sql, safe_sql,
                   data_end_date, err, retry, executed, fixes, failure, logged, result,
                   applied, messages, client>>

\* call_openrouter_sync: the last attempt raises: the error leaves the
\* function and the _call_model task ends with it.
AttemptExhausts(m) ==
    /\ unit[m].st = "running"
    /\ unit[m].attempts = BackoffCount
    /\ unit' = [unit EXCEPT ![m].st = "failed", ![m].attempts = 0]
    /\ UNCHANGED <<pc, winner_pref, races, winner, trials, repaired, sql, safe_sql,
                   data_end_date, err, retry, executed, fixes, failure, logged, result,
                   applied, messages, client>>

\* call_openrouter_sync returns the response; _call_model builds its result.
AttemptSucceeds(m, text) ==
    /\ unit[m].st = "running"
    /\ unit' = [unit EXCEPT ![m].st = "done", ![m].attempts = 0, ![m].text = text]
    /\ UNCHANGED <<pc, winner_pref, races, winner, trials, repaired, sql, safe_sql,
                   data_end_date, err, retry, executed, fixes, failure, logged, result,
                   applied, messages, client>>

\* The dict _call_model returns, with the score try_models adds.
TrialOf(m) ==
    [model |-> MODELS[m].id,
     text |-> unit[m].text,
     latency_ms |-> MODELS[m].latency,
     cost_usd |-> MODELS[m].price,
     score |-> grounding_score(unit[m].text)]

KeyLess_ScoreAscending(pref, x, y) ==
    LET a1 == IF pref = "fastest" THEN x.latency_ms ELSE x.cost_usd
        b1 == IF pref = "fastest" THEN y.latency_ms ELSE y.cost_usd
        a2 == IF pref = "fastest" THEN x.cost_usd ELSE x.latency_ms
        b2 == IF pref = "fastest" THEN y.cost_usd ELSE y.latency_ms
    IN  \/ x.score < y.score
        \/ x.score = y.score /\ a1 < b1
        \/ x.score = y.score /\ a1 = b1 /\ a2 < b2

\* sort_key of try_models as a strict order on trials.
KeyLess(pref, x, y) ==
    LET a1 == IF pref = "fastest" THEN x.latency_ms ELSE x.cost_usd
        b1 == IF pref = "fastest" THEN y.latency_ms ELSE y.cost_usd
        a2 == IF pref = "fastest" THEN x.cost_usd ELSE x.latency_ms
        b2 == IF pref = "fastest" THEN y.cost_usd ELSE y.latency_ms
    IN  \/ x.score > y.score
        \/ x.score = y.score /\ a1 < b1
        \/ x.score = y.score /\ a1 = b1 /\ a2 < b2

\* sorted(results, key=sort_key)[0]: the sort is stable, so the first of the
\* minimal trials.
SelectWinner(results, pref) ==
    results[Min({i \in 1..Len(results) :
                    \A j \in 1..Len(results) : ~KeyLess(pref, results[j], results[i])})]

\* asyncio.gather has every result.
AllDone == \A m \in Units : unit[m].st = "done"

\* asyncio.gather re-raises the first exception of a task at once; the
\* other tasks are not cancelled.
SomeFailed == \E m \in Units : unit[m].st = "failed"

RaceResults == [m \in Units |-> TrialOf(m)]

(***************************************************************************)
(* services/query_service.py: run_query                                    *)
(***************************************************************************)

\* The check of lines 62 and 85 on a repaired candidate.
RepairCheck(cand) ==
    /\ cand # Empty /\ cand # None
    /\ looks_select_only(cand)
    /\ ~contains_bad(cand)
    /\ mentions_allowed_objects(cand)

\* One dbx.run_sql call: the statement, the candidate it was rewritten from,
\* the path that sent it and the error text it raised ("" when it returned).
Sent(stmt, cand, path, error) ==
    [stmt |-> stmt, cand |-> cand, path |-> path, error |-> error]

Raise(kind, detail) == [kind |-> kind, detail |-> detail]

\* build_messages: the system prompt and the user's question.
build_messages ==
    <<Message("system", "prompt", Empty), Message("user", "question", Empty)>>

\* Lines 72-75: the messages of the repair race.
repair_messages(e) ==
    messages \o <<Message("assistant", "", Fenced(safe_sql)),
                  Message("user", e, Empty)>>

\* Lines 27-31: build the messages and start the first race.
StartFirstRace ==
    /\ pc = "start"
    /\ messages' = build_messages
    /\ races' = races + 1
    /\ unit' = StartedUnits
    /\ pc' = "race"
    /\ UNCHANGED <<winner_pref, winner, trials, repaired, sql, safe_sql, data_end_date,
                   err, retry, executed, fixes, failure, logged, result, applied, client>>

\* try_models returning with the first result, the other tasks left running.
FirstRaceReturns_OnFirstResult ==
    /\ pc = "race" /\ races = 1
    /\ \E m \in Units : unit[m].st = "done"
    /\ trials' = RaceResults
    /\ winner' = SelectWinner(trials', winner_pref)
    /\ pc' = "guard"
    /\ UNCHANGED <<winner_pref, races, unit, repaired, sql, safe_sql, data_end_date, err,
                   retry, executed, fixes, failure, logged, result, applied, messages,
                   client>>

\* try_models returns to line 31: every task is done, the results are
\* scored and the winner chosen.
FirstRaceReturns ==
    /\ pc = "race" /\ races = 1
    /\ AllDone
    /\ trials' = RaceResults
    /\ winner' = SelectWinner(trials', winner_pref)
    /\ pc' = "guard"
    /\ UNCHANGED <<winner_pref, races, unit, repaired, sql, safe_sql, data_end_date, err,
                   retry, executed, fixes, failure, logged, result, applied, messages,
                   client>>

\* A task's exception leaves gather, try_models, run_until_complete and
\* run_query (lines 31 and 80 have no handler); the finally clause closes
\* the loop, which does not wait for the threads of the other tasks.
RaceRaises ==
    /\ pc = "race"
    /\ SomeFailed
    /\ failure' = Raise("transport", "")
    /\ pc' = "failed"
    /\ UNCHANGED <<winner_pref, races, unit, winner, trials, repaired, sql, safe_sql,
                   data_end_date, err, retry, executed, fixes, logged, result, applied,
                   messages, client>>

\* Lines 40-48 without the "if not sql" of lines 38-39: an empty candidate
\* goes to the shape stage, which rejects it.
Guardrails_WithoutEmptyCheck(cand, stage) ==
    /\ sql' = cand
    /\ IF stage # ""
       THEN /\ failure' = Raise(stage, "")
            /\ pc' = "failed"
       ELSE /\ failure' = failure
            /\ pc' = "rewrite"

\* Lines 38-48 on the candidate of line 35 and the first stage rejecting it.
Guardrails_(cand, stage) ==
    /\ sql' = cand
    /\ IF cand = Empty
       THEN /\ failure' = Raise("no_sql", "No SQL found in the model's answer.")
            /\ pc' = "failed"
       ELSE IF stage # ""
       THEN /\ failure' = Raise(stage, "")
            /\ pc' = "failed"
       ELSE /\ failure' = failure
            /\ pc' = "rewrite"

\* Lines 35-48: extraction and the guardrails.
Guardrails ==
    /\ pc = "guard"
    /\ Guardrails_(Candidate(winner.text), FirstFailingStage(Candidate(winner.text)))
    /\ UNCHANGED <<winner_pref, races, unit, winner, trials, repaired, safe_sql,
                   data_end_date, err, retry, executed, fixes, logged, result, applied,
                   messages, client>>

\* Lines 50-55: the anchor date and the rewrite stage.
RewriteFirst(d) ==
    /\ pc = "rewrite"
    /\ data_end_date' = d
    /\ safe_sql' = Rewrite(sql, StoreId, d)
    /\ pc' = "exec"
    /\ UNCHANGED <<winner_pref, races, unit, winner, trials, repaired, sql, err, retry,
                   executed, fixes, failure, logged, result, applied, messages, client>>

\* Line 58 returns.
FirstExecutionSucceeds ==
    /\ pc = "exec"
    /\ executed' = Append(executed, Sent(safe_sql, sql, "first", ""))
    /\ pc' = "log"
    /\ UNCHANGED <<winner_pref, races, unit, winner, trials, repaired, sql, safe_sql,
                   data_end_date, err, retry, fixes, failure, logged, result, applied,
                   messages, client>>

\* Line 58 raises e.
FirstExecutionFails(e) ==
    /\ pc = "exec"
    /\ executed' = Append(executed, Sent(safe_sql, sql, "first", e))
    /\ err' = e
    /\ pc' = "repair"
    /\ UNCHANGED <<winner_pref, races, unit, winner, trials, repaired, sql, safe_sql,
                   data_end_date, retry, fixes, failure, logged, result, applied,
                   messages, client>>

\* Lines 62-67 and 72-80 on the result of the fixer: its check and rewrite,
\* or the start of the repair race when the fix is missing or rejected.
RepairKnown_(fixed_once) ==
    IF RepairCheck(fixed_once)
    THEN /\ retry' = [cand |-> fixed_once,
                      stmt |-> Rewrite(fixed_once, StoreId, data_end_date)]
         /\ pc' = "exec_fix"
         /\ UNCHANGED <<races, unit, messages>>
    ELSE /\ retry' = retry
         /\ messages' = repair_messages(err)
         /\ races' = races + 1
         /\ unit' = StartedUnits
         /\ pc' = "race"

\* Lines 61-67 and 72-80: the deterministic fixer comes first.
RepairKnown ==
    /\ pc = "repair"
    /\ fixes' = fixes + 1
    /\ RepairKnown_(repair_known_errors(safe_sql, err))
    /\ UNCHANGED <<winner_pref, winner, trials, repaired, sql, safe_sql, data_end_date,
                   err, executed, failure, logged, result, applied, client>>

\* Lines 68-69 without the assignment of line 69.
FixExecutionSucceeds_KeepsFirst ==
    /\ pc = "exec_fix"
    /\ executed' = Append(executed, Sent(retry.stmt, retry.cand, "fix", ""))
    /\ pc' = "log"
    /\ UNCHANGED <<winner_pref, races, unit, winner, trials, repaired, sql, safe_sql,
                   data_end_date, err, retry, fixes, failure, logged, result, applied,
                   messages, client>>

\* Lines 68-69: the fixed statement runs.
FixExecutionSucceeds ==
    /\ pc = "exec_fix"
    /\ executed' = Append(executed, Sent(retry.stmt, retry.cand, "fix", ""))
    /\ safe_sql' = retry.stmt
    /\ pc' = "log"
    /\ UNCHANGED <<winner_pref, races, unit, winner, trials, repaired, sql,
                   data_end_date, err, retry, fixes, failure, logged, result, applied,
                   messages, client>>

\* Line 68 raises and the handler re-raises the error it caught first.
FixExecutionFails_RaisesFirst(e) ==
    /\ pc = "exec_fix"
    /\ executed' = Append(executed, Sent(retry.stmt, retry.cand, "fix", e))
    /\ failure' = Raise("execution", err)
    /\ pc' = "failed"
    /\ UNCHANGED <<winner_pref, races, unit, winner, trials, repaired, sql, safe_sql,
                   data_end_date, err, retry, fixes, logged, result, applied, messages,
                   client>>

\* Line 68 raises and the error is handed to the repair race of lines 72-80.
FixExecutionFails_StartsRepairRace(e) ==
    /\ pc = "exec_fix"
    /\ executed' = Append(executed, Sent(retry.stmt, retry.cand, "fix", e))
    /\ err' = e
    /\ messages' = repair_messages(e)
    /\ races' = races + 1
    /\ unit' = StartedUnits
    /\ pc' = "race"
    /\ UNCHANGED <<winner_pref, winner, trials, repaired, sql, safe_sql, data_end_date,
                   retry, fixes, failure, logged, result, applied, client>>

\* Line 68 raises inside the handler: the new error leaves run_query.
FixExecutionFails(e) ==
    /\ pc = "exec_fix"
    /\ executed' = Append(executed, Sent(retry.stmt, retry.cand, "fix", e))
    /\ failure' = Raise("execution", e)
    /\ pc' = "failed"
    /\ UNCHANGED <<winner_pref, races, unit, winner, trials, repaired, sql, safe_sql,
                   data_end_date, err, retry, fixes, logged, result, applied, messages,
                   client>>

\* Lines 85-94 on the candidate of line 84.
CheckRepaired(repaired_sql) ==
    IF RepairCheck(repaired_sql)
    THEN /\ retry' = [cand |-> repaired_sql,
                      stmt |-> Rewrite(repaired_sql, StoreId, data_end_date)]
         /\ pc' = "exec_repair"
         /\ failure' = failure
    ELSE /\ retry' = retry
         /\ failure' = Raise("execution", err)
         /\ pc' = "failed"

\* Line 80 assigning the repair race's winner and trials to winner, trials.
RepairRaceReturns_ReplacesWinner ==
    /\ pc = "race" /\ races = 2
    /\ AllDone
    /\ repaired' = SelectWinner(RaceResults, winner_pref)
    /\ winner' = repaired'
    /\ trials' = RaceResults
    /\ CheckRepaired(Candidate(repaired'.text))
    /\ UNCHANGED <<winner_pref, races, unit, sql, safe_sql, data_end_date, err, executed,
                   fixes, logged, result, applied, messages, client>>

\* try_models returns to line 80; lines 84-90 check and rewrite the
\* repaired candidate, line 94 re-raises the first error.
RepairRaceReturns ==
    /\ pc = "race" /\ races = 2
    /\ AllDone
    /\ repaired' = SelectWinner(RaceResults, winner_pref)
    /\ CheckRepaired(Candidate(repaired'.text))
    /\ UNCHANGED <<winner_pref, races, unit, winner, trials, sql, safe_sql,
                   data_end_date, err, executed, fixes, logged, result, applied,
                   messages, client>>

\* Lines 91-92.
RepairExecutionSucceeds ==
    /\ pc = "exec_repair"
    /\ executed' = Append(executed, Sent(retry.stmt, retry.cand, "repair", ""))
    /\ safe_sql' = retry.stmt
    /\ pc' = "log"
    /\ UNCHANGED <<winner_pref, races, unit, winner, trials, repaired, sql,
                   data_end_date, err, retry, fixes, failure, logged, result, applied,
                   messages, client>>

\* Line 91 raises and the error is handled like that of line 58: a second
\* repair round.
RepairExecutionFails_RepairsAgain(e) ==
    /\ pc = "exec_repair"
    /\ executed' = Append(executed, Sent(retry.stmt, retry.cand, "repair", e))
    /\ safe_sql' = retry.stmt
    /\ err' = e
    /\ pc' = "repair"
    /\ UNCHANGED <<winner_pref, races, unit, winner, trials, repaired, sql,
                   data_end_date, retry, fixes, failure, logged, result, applied,
                   messages, client>>

\* Line 91 raises inside the handler.
RepairExecutionFails(e) ==
    /\ pc = "exec_repair"
    /\ executed' = Append(executed, Sent(retry.stmt, retry.cand, "repair", e))
    /\ failure' = Raise("execution", e)
    /\ pc' = "failed"
    /\ UNCHANGED <<winner_pref, races, unit, winner, trials, repaired, sql, safe_sql,
                   data_end_date, err, retry, fixes, logged, result, applied, messages,
                   client>>

\* The payload of line 100 and whether dbx.log_run raised on it.
LogCall(raised) ==
    [chosen_model |-> winner.model, latency_ms |-> winner.latency_ms,
     cost_usd |-> winner.cost_usd, trials |-> trials, raised |-> raised]

\* Lines 96-113 without the handler of line 109: what the log sink raises
\* leaves run_query.
LogAndReturn_Propagates(raised) ==
    /\ pc = "log"
    /\ logged' = Append(logged, LogCall(raised))
    /\ IF raised
       THEN /\ failure' = Raise("log", "")
            /\ pc' = "failed"
            /\ result' = result
       ELSE /\ failure' = failure
            /\ pc' = "done"
            /\ result' = [sql |-> safe_sql, trials |-> trials, winner |-> winner,
                          data_end_date |-> data_end_date]
    /\ UNCHANGED <<winner_pref, races, unit, winner, trials, repaired, sql, safe_sql,
                   data_end_date, err, retry, executed, fixes, applied, messages, client>>

\* Lines 96-113: the log sink is called; it returns or raises, the handler
\* of line 109 drops what it raises, and the result is returned.
LogAndReturn(raised) ==
    /\ pc = "log"
    /\ logged' = Append(logged, LogCall(raised))
    /\ result' = [sql |-> safe_sql, trials |-> trials, winner |-> winner,
                  data_end_date |-> data_end_date]
    /\ pc' = "done"
    /\ UNCHANGED <<winner_pref, races, unit, winner, trials, repaired, sql, safe_sql,
                   data_end_date, err, retry, executed, fixes, failure, applied,
                   messages, client>>

Next ==
    \/ StartFirstRace
    \/ \E m \in Units : AttemptRetries(m)
    \/ \E m \in Units : AttemptExhausts(m)
    \/ \E m \in Units : \E text \in AnswerPool : AttemptSucceeds(m, text)
    \/ FirstRaceReturns
    \/ RaceRaises
    \/ Guardrails
    \/ \E d \in EndDates : RewriteFirst(d)
    \/ FirstExecutionSucceeds
    \/ \E e \in DbErrors : FirstExecutionFails(e)
    \/ RepairKnown
    \/ FixExecutionSucceeds
    \/ \E e \in DbErrors : FixExecutionFails(e)
    \/ RepairRaceReturns
    \/ RepairExecutionSucceeds
    \/ \E e \in DbErrors : RepairExecutionFails(e)
    \/ \E raised \in BOOLEAN : LogAndReturn(raised)

Spec == Init /\ [][Next]_vars

(***************************************************************************)
(* The guardrails functions on their own: one function is applied to one  *)
(* text, and the rewriters a second time to what they returned.            *)
(***************************************************************************)
InitFunctions ==
    /\ pc = "start"
    /\ winner_pref = "cheapest"
    /\ races = 0
    /\ unit = [m \in Units |-> IdleUnit]
    /\ winner = NoTrial
    /\ trials = <<>>
    /\ repaired = NoTrial
    /\ sql = Empty
    /\ safe_sql = Empty
    /\ data_end_date = ""
    /\ err = ""
    /\ retry = NoRetry
    /\ executed = <<>>
    /\ fixes = 0
    /\ failure = NoFailure
    /\ logged = <<>>
    /\ result = NoResult
    /\ applied \in {[NoApplication EXCEPT !.arg = t, !.base_date = d] :
                        t \in Texts, d \in EndDates}
    /\ messages = <<>>
    /\ client = [m \in Units |-> NoCall]

Applied(f, out, again, ok) ==
    /\ applied.f = ""
    /\ applied' = [applied EXCEPT !.f = f, !.out = out, !.again = again, !.ok = ok]
    /\ UNCHANGED <<pc, winner_pref, races, unit, winner, trials, repaired, sql, safe_sql,
                   data_end_date, err, retry, executed, fixes, failure, logged, result,
                   messages, client>>

Apply_looks_select_only ==
    Applied("looks_select_only", Empty, Empty, looks_select_only(applied.arg))

Apply_ensure_store_filter_(out) ==
    Applied("ensure_store_filter", out, ensure_store_filter(out, StoreId), TRUE)

Apply_ensure_store_filter ==
    Apply_ensure_store_filter_(ensure_store_filter(applied.arg, StoreId))

Apply_ensure_limit_(out) == Applied("ensure_limit", out, ensure_limit(out), TRUE)

Apply_ensure_limit == Apply_ensure_limit_(ensure_limit(applied.arg))

\* replace_current_date may return None, which is no text to apply it to.
Apply_replace_current_date_(out, base_date) ==
    Applied("replace_current_date", out,
            IF out = None THEN None ELSE replace_current_date(out, base_date), TRUE)

Apply_replace_current_date ==
    Apply_replace_current_date_(replace_current_date(applied.arg, applied.base_date),
                                applied.base_date)

\* columns_exist returns (True, None) or (False, the distinct problems).
Apply_columns_exist_(bad_refs) ==
    /\ applied.f = ""
    /\ applied' = [applied EXCEPT !.f = "columns_exist", !.ok = (bad_refs = {}),
                                  !.problems = bad_refs]
    /\ UNCHANGED <<pc, winner_pref, races, unit, winner, trials, repaired, sql, safe_sql,
                   data_end_date, err, retry, executed, fixes, failure, logged, result,
                   messages, client>>

Apply_columns_exist == Apply_columns_exist_(BadRefs(applied.arg))

\* Lines 51-55, and once more on their result as lines 63-67 do.
Apply_Rewrite_(out, base_date) ==
    Applied("rewrite", out, Rewrite(out, StoreId, base_date), TRUE)

Apply_Rewrite ==
    Apply_Rewrite_(Rewrite(applied.arg, StoreId, applied.base_date), applied.base_date)

NextFunctions ==
    \/ Apply_looks_select_only
    \/ Apply_ensure_store_filter
    \/ Apply_ensure_limit
    \/ Apply_replace_current_date
    \/ Apply_Rewrite
    \/ Apply_columns_exist

FunctionSpec == InitFunctions /\ [][NextFunctions]_vars

(***************************************************************************)
(* adapters/llm_openrouter.py: call_openrouter_sync on its own, one call   *)
(* per model as _call_model starts them in threads.                        *)
(***************************************************************************)

\* backoffs of line 13, in tenths of a second.
backoffs == <<4, 8, 16>>

InitClient ==
    /\ pc = "start"
    /\ winner_pref = "cheapest"
    /\ races = 0
    /\ unit = [m \in Units |-> IdleUnit]
    /\ winner = NoTrial
    /\ trials = <<>>
    /\ repaired = NoTrial
    /\ sql = Empty
    /\ safe_sql = Empty
    /\ data_end_date = ""
    /\ err = ""
    /\ retry = NoRetry
    /\ executed = <<>>
    /\ fixes = 0
    /\ failure = NoFailure
    /\ logged = <<>>
    /\ result = NoResult
    /\ applied = NoApplication
    /\ messages = <<>>
    /\ client = [m \in Units |-> NoCall]

\* Lines 12-22: the call enters the loop with i = 0.
CallStarts(m) ==
    /\ client[m].st = "idle"
    /\ client' = [client EXCEPT ![m].st = "posting"]
    /\ UNCHANGED <<pc, winner_pref, races, unit, winner, trials, repaired, sql, safe_sql,
                   data_end_date, err, retry, executed, fixes, failure, logged, result,
                   applied, messages>>

\* Lines 24-30: the POST is answered with a 2xx status and a JSON body.
PostReturns(m) ==
    /\ client[m].st = "posting"
    /\ client' = [client EXCEPT ![m].st = "ended", ![m].posts = @ + 1,
                                ![m].ended = "returned"]
    /\ UNCHANGED <<pc, winner_pref, races, unit, winner, trials, repaired, sql, safe_sql,
                   data_end_date, err, retry, executed, fixes, failure, logged, result,
                   applied, messages>>

\* The handler of lines 31-36 with a sleep after every failed attempt and
\* no last attempt.
PostFails_RetriesForever(m) ==
    /\ client[m].st = "posting"
    /\ client[m].posts <= Len(backoffs) + 1
    /\ client' = [client EXCEPT ![m].posts = @ + 1, ![m].errors = @ + 1, ![m].i = @ + 1,
                                ![m].slept = Append(@, backoffs[IF client[m].i < Len(backoffs)
                                                                 THEN client[m].i + 1
                                                                 ELSE Len(backoffs)])]
    /\ UNCHANGED <<pc, winner_pref, races, unit, winner, trials, repaired, sql, safe_sql,
                   data_end_date, err, retry, executed, fixes, failure, logged, result,
                   applied, messages>>

\* Lines 24-36: the POST or raise_for_status raises an httpx.HTTPError (a
\* timeout, a connection error, a status that is not 2xx): with a backoff
\* left the call sleeps and goes round the loop, otherwise it re-raises.
PostFails(m) ==
    /\ client[m].st = "posting"
    /\ IF client[m].i < Len(backoffs)
       THEN client' = [client EXCEPT ![m].posts = @ + 1, ![m].errors = @ + 1,
                                     ![m].i = @ + 1,
                                     ![m].slept = Append(@, backoffs[client[m].i + 1])]
       ELSE client' = [client EXCEPT ![m].posts = @ + 1, ![m].errors = @ + 1,
                                     ![m].st = "ended", ![m].ended = "transport"]
    /\ UNCHANGED <<pc, winner_pref, races, unit, winner, trials, repaired, sql, safe_sql,
                   data_end_date, err, retry, executed, fixes, failure, logged, result,
                   applied, messages>>

\* Line 30: r.json() raises on a body that is no JSON; the handler of line
\* 31 does not catch it and it leaves the call.
BodyInvalid(m) ==
    /\ client[m].st = "posting"
    /\ client' = [client EXCEPT ![m].st = "ended", ![m].posts = @ + 1,
                                ![m].ended = "decode"]
    /\ UNCHANGED <<pc, winner_pref, races, unit, winner, trials, repaired, sql, safe_sql,
                   data_end_date, err, retry, executed, fixes, failure, logged, result,
                   applied, messages>>

NextClient ==
    \/ \E m \in Units : CallStarts(m)
    \/ \E m \in Units : PostReturns(m)
    \/ \E m \in Units : PostFails(m)
    \/ \E m \in Units : BodyInvalid(m)

ClientSpec == InitClient /\ [][NextClient]_vars

(***************************************************************************)
(* extract_sql and grounding_score on their own, on the answers a provider *)
(* may give.                                                               *)
(***************************************************************************)

\* The statements an answer may hold.
Quoted ==
    {Q_plain, Q_semi, Q_multi, Q_block, Q_obj, Q_col, T_with, T_insert, T_selected, T_count,
     T_date, T_star, Ws(<<"delete", "from", "secrets">>), Empty}

\* The layouts of an answer around the statements t and u: a tagged block,
\* its tag in upper case, prose before the bare statement, the bare
\* statement, two tagged blocks, a tagged block that is not closed, a block
\* without a tag.
Layout(k, t, u) ==
    CASE k = 1 -> Fenced(t)
      [] k = 2 -> <<W("<fence>SQL")>> \o t \o <<W("<fence>")>>
      [] k = 3 -> A_none \o t
      [] k = 4 -> t
      [] k = 5 -> Fenced(t) \o A_none \o Fenced(u)
      [] k = 6 -> <<W("<fence>sql")>> \o t
      [] OTHER -> <<W("<fence>")>> \o t \o <<W("<fence>")>>

Replies == {Layout(k, t, Q_obj) : k \in 1..7, t \in Quoted}

InitExtract ==
    /\ pc = "start"
    /\ winner_pref = "cheapest"
    /\ races = 0
    /\ unit = [m \in Units |-> IdleUnit]
    /\ winner = NoTrial
    /\ trials = <<>>
    /\ repaired = NoTrial
    /\ sql = Empty
    /\ safe_sql = Empty
    /\ data_end_date = ""
    /\ err = ""
    /\ retry = NoRetry
    /\ executed = <<>>
    /\ fixes = 0
    /\ failure = NoFailure
    /\ logged = <<>>
    /\ result = NoResult
    /\ applied \in {[NoApplication EXCEPT !.arg = a] : a \in Replies}
    /\ messages = <<>>
    /\ client = [m \in Units |-> NoCall]

Apply_extract_sql == Applied("extract_sql", extract_sql(applied.arg), Empty, TRUE)

Apply_grounding_score_(score) ==
    /\ applied.f = ""
    /\ applied' = [applied EXCEPT !.f = "grounding_score", !.score = score]
    /\ UNCHANGED <<pc, winner_pref, races, unit, winner, trials, repaired, sql, safe_sql,
                   data_end_date, err, retry, executed, fixes, failure, logged, result,
                   messages, client>>

Apply_grounding_score == Apply_grounding_score_(grounding_score(applied.arg))

NextExtract ==
    \/ Apply_extract_sql
    \/ Apply_grounding_score

ExtractSpec == InitExtract /\ [][NextExtract]_vars

(***************************************************************************)
(* adapters/llm_openrouter.py: the selection of try_models on its own, on  *)
(* the results asyncio.gather may return.                                  *)
(***************************************************************************)

\* The longest list of results drawn.
MaxTrials == 3

\* The ids of settings.MODELS, in list order.
ModelIds ==
    <<"nousresearch/hermes-4-405b", "deepseek/deepseek-chat-v3.1:free",
      "x-ai/grok-code-fast-1", "deepseek/deepseek-chat-v3.1", "qwen/qwen3-coder",
      "google/gemini-2.5-flash", "openai/gpt-4.1-mini",
      "tencent/hunyuan-a13b-instruct:free">>

\* An answer that holds a statement of no accepted shape on no known object.
A_delete == Fenced(Ws(<<"delete", "from", "secrets">>))

\* The answers, costs (in 0.0001 USD) and latencies (in ms) of the results.
TrialAnswers == {Fenced(Q_semi), A_delete}
TrialCosts == {1, 10, 20}
TrialLatencies == {50, 500, 900}

\* The dict _call_model returns for one answer; try_models has not scored it.
Measured == [text : TrialAnswers, cost_usd : TrialCosts, latency_ms : TrialLatencies]

Gathered(n) ==
    {[i \in 1..n |-> [model |-> ModelIds[i], text |-> f[i].text,
                      latency_ms |-> f[i].latency_ms, cost_usd |-> f[i].cost_usd,
                      score |-> 0]] : f \in [1..n -> Measured]}

InitSelect ==
    /\ pc = "gathered"
    /\ winner_pref \in {"cheapest", "fastest"}
    /\ races = 1
    /\ unit = [m \in Units |-> IdleUnit]
    /\ winner = NoTrial
    /\ \E n \in 1..MaxTrials : trials \in Gathered(n)
    /\ repaired = NoTrial
    /\ sql = Empty
    /\ safe_sql = Empty
    /\ data_end_date = ""
    /\ err = ""
    /\ retry = NoRetry
    /\ executed = <<>>
    /\ fixes = 0
    /\ failure = NoFailure
    /\ logged = <<>>
    /\ result = NoResult
    /\ applied = NoApplication
    /\ messages = <<>>
    /\ client = [m \in Units |-> NoCall]

\* Lines 62-63: every result gets its score.
Scored(results) ==
    [i \in 1..Len(results) |-> [results[i] EXCEPT !.score = grounding_score(results[i].text)]]

\* Lines 62-69: score the results, sort them, return the first and the list.
ScoreAndSelect_(results) ==
    /\ pc = "gathered"
    /\ trials' = results
    /\ winner' = SelectWinner(results, winner_pref)
    /\ pc' = "selected"
    /\ UNCHANGED <<winner_pref, races, unit, repaired, sql, safe_sql, data_end_date, err,
                   retry, executed, fixes, failure, logged, result, applied, messages,
                   client>>

ScoreAndSelect == ScoreAndSelect_(Scored(trials))

NextSelect == ScoreAndSelect

SelectSpec == InitSelect /\ [][NextSelect]_vars

(***************************************************************************)
(* Properties                                                              *)
(***************************************************************************)

Sends == 1..Len(executed)

\* The first race returned and lines 35-48 have run on its winner.
GuardrailsRan == trials # <<>> /\ pc # "guard"

\* The Guardrail Validator as the specification describes it: all four
\* stages, in order, on a text that is not empty.
Validated(text) ==
    /\ text # Empty
    /\ looks_select_only(text)
    /\ ~contains_bad(text)
    /\ mentions_allowed_objects(text)
    /\ columns_exist(text)

\* C1: every statement handed to dbx.run_sql, on the first execution and on
\* either repair execution, passes the Guardrail Validator in the form in
\* which it is executed.
C1_ExecutedFormIsValidated == \A i \in Sends : Validated(executed[i].stmt)

\* C2: a repaired candidate, from the deterministic fixer or from the repair
\* race, is executed only if it passes all four guardrail stages.
C2_RepairedCandidatePassesAllStages ==
    \A i \in Sends : executed[i].path \in {"fix", "repair"} => Validated(executed[i].cand)

\* The objects a text reads: the names that follow "from" or "join".
ReferencedObjects(low) ==
    {IdentPrefix(low[i + 1]) : i \in {j \in 1..(Len(low) - 1) : low[j] \in {W("from"), W("join")}}}

OnlyAllowedObjects(text) ==
    ReferencedObjects(LowText(text)) \subseteq {AllowedObjects[k] : k \in 1..Len(AllowedObjects)}

\* C3: every statement handed to dbx.run_sql reads only allow-listed
\* objects; a candidate that reads a table or view outside ALLOW_VIEWS and
\* ALLOW_TABLES is never executed.
C3_OnlyAllowedObjectsExecuted ==
    \A i \in Sends : OnlyAllowedObjects(executed[i].cand) /\ OnlyAllowedObjects(executed[i].stmt)

\* The lower-cased text holds a configured keyword as a whole word, the
\* sentinel ;-- or the word copy.
BlockedText(text) ==
    \E i \in 1..Len(text) : \E w \in WordsOf(LowTok(text[i])) : w \in BAD_KEYWORDS \cup {"copy"}

\* C4: a first candidate whose lower-cased text holds a blocked keyword as a
\* whole word is rejected, and no statement with such a keyword (first
\* candidate, deterministic fix or model-assisted repair) is handed to
\* dbx.run_sql.
C4_BlockedKeywordNeverExecuted ==
    /\ (GuardrailsRan /\ BlockedText(Candidate(winner.text)))
          => (pc = "failed" /\ failure.kind \in {"shape", "blocklist"} /\ executed = <<>>)
    /\ \A i \in Sends : ~BlockedText(executed[i].cand) /\ ~BlockedText(executed[i].stmt)

C4_BlockedCandidateRejected ==
    /\ pc = "failed" /\ failure.kind = "blocklist"
    /\ looks_select_only(sql) /\ BlockedText(sql)
    /\ executed = <<>>

\* The stage that rejects a text, asked in the order shape, blocklist,
\* object allow-list, column/alias.
StageInOrder(text) ==
    CASE ~looks_select_only(text) -> "shape"
      [] looks_select_only(text) /\ contains_bad(text) -> "blocklist"
      [] looks_select_only(text) /\ ~contains_bad(text) /\ ~mentions_allowed_objects(text)
            -> "objects"
      [] OTHER -> IF columns_exist(text) THEN "" ELSE "columns"

\* C5: when the first race's winner candidate fails a guardrail stage,
\* run_query ends with a failure naming the first failing stage in the
\* order shape, blocklist, objects, columns; nothing is executed, no second
\* race starts, no repair runs and the winner is not replaced.
C5_GuardrailFailureIsTerminal ==
    (GuardrailsRan /\ Candidate(winner.text) # Empty /\ StageInOrder(Candidate(winner.text)) # "")
       => /\ pc = "failed"
          /\ failure.kind = StageInOrder(Candidate(winner.text))
          /\ executed = <<>> /\ safe_sql = Empty
          /\ races = 1 /\ fixes = 0
          /\ winner = SelectWinner(trials, winner_pref)
          /\ sql = Candidate(winner.text)

C5_ShapeRejectedBeforeBlocklist ==
    /\ pc = "failed" /\ failure.kind = "shape"
    /\ contains_bad(sql)
    /\ \E i \in 1..Len(trials) : trials[i] # winner
    /\ executed = <<>>

\* C6: when no candidate can be extracted from the winner's text, or the
\* extraction is the empty string, run_query ends with the no-SQL failure
\* and nothing is rewritten or executed; an empty candidate is never
\* executed.
C6_NoCandidateIsTerminal ==
    /\ (GuardrailsRan /\ extract_sql(winner.text) \in {None, Empty})
          => /\ pc = "failed"
             /\ failure = Raise("no_sql", "No SQL found in the model's answer.")
             /\ sql = Empty /\ safe_sql = Empty /\ data_end_date = ""
             /\ executed = <<>> /\ races = 1 /\ fixes = 0
    /\ \A i \in Sends : executed[i].cand \notin {None, Empty} /\ executed[i].stmt \notin {None, Empty}

C6_EmptyExtractionFailed ==
    /\ pc = "failed" /\ failure.kind = "no_sql"
    /\ extract_sql(winner.text) = Empty
    /\ \E i \in 1..Len(trials) : extract_sql(trials[i].text) = None

\* C7: in one run_query call the deterministic fixer runs at most once, the
\* model race at most twice and dbx.run_sql at most twice.
C7_BoundedRepair == fixes <= 1 /\ races <= 2 /\ Len(executed) <= 2

C7_RepairRaceExecuted ==
    /\ fixes = 1 /\ races = 2 /\ Len(executed) = 2
    /\ executed[2].path = "repair"
    /\ pc \in {"failed", "done"}

C9_RaceFailsOnlyWhenAllExhausted ==
    failure.kind = "transport" => \A m \in Units : unit[m].st = "failed"

\* C10: try_models returns to run_query, with a result or with an error,
\* only after every unit has produced a trial or exhausted its retries: no
\* unit is running once run_query has left the race.
C10_NoUnitRunningAfterRace ==
    pc \notin {"start", "race"} => \A m \in Units : unit[m].st # "running"

\* sort_key of try_models, as the claim words it: the trial's values in the
\* order of the policy, the score negated.
PolicyKey(pref, x) ==
    IF pref = "fastest" THEN <<0 - x.score, x.latency_ms, x.cost_usd>>
    ELSE <<0 - x.score, x.cost_usd, x.latency_ms>>

\* Lexicographic order on keys of three integers.
LexLess(k, l) ==
    \E i \in 1..3 : k[i] < l[i] /\ \A h \in 1..(i - 1) : k[h] = l[h]

\* The trials of the example: scores 3, 3, 1; costs 0.002, 0.001, 0.0001;
\* latencies 500, 900, 50.
ExampleTrials ==
    /\ Len(trials) = 3
    /\ <<trials[1].score, trials[1].cost_usd, trials[1].latency_ms>> = <<3, 20, 500>>
    /\ <<trials[2].score, trials[2].cost_usd, trials[2].latency_ms>> = <<3, 10, 900>>
    /\ <<trials[3].score, trials[3].cost_usd, trials[3].latency_ms>> = <<1, 1, 50>>

\* C11: the winner try_models returns is the first trial of the list that is
\* minimal under the lexicographic key of the policy (score descending, then
\* cost and latency for cheapest, latency and cost for fastest); it has the
\* maximum score of all trials, and in the example under cheapest it is the
\* second trial.
C11_WinnerIsFirstMinimalUnderPolicyKey ==
    pc = "selected" =>
        /\ \E i \in 1..Len(trials) :
              /\ winner = trials[i]
              /\ \A j \in 1..Len(trials) :
                    ~LexLess(PolicyKey(winner_pref, trials[j]), PolicyKey(winner_pref, trials[i]))
              /\ \A j \in 1..(i - 1) :
                    LexLess(PolicyKey(winner_pref, trials[i]), PolicyKey(winner_pref, trials[j]))
        /\ \A j \in 1..Len(trials) : winner.score >= trials[j].score
        /\ (ExampleTrials /\ winner_pref = "cheapest") => winner = trials[2]

C11_ExampleSecondWins ==
    /\ pc = "selected"
    /\ ExampleTrials
    /\ winner_pref = "cheapest"
    /\ winner = trials[2]

\* C12: on every successful run_query the run summary goes to the log sink
\* exactly once, after the last, successful execution; what the log sink
\* raises is dropped and the result is still returned; on a terminal
\* failure the log sink is not called.
C12_LoggedOnceOnSuccessOnly ==
    /\ pc = "done"
          => /\ Len(logged) = 1
             /\ logged[1].chosen_model = winner.model /\ logged[1].trials = trials
             /\ executed[Len(executed)].error = ""
             /\ failure = NoFailure
             /\ result = [sql |-> safe_sql, trials |-> trials, winner |-> winner,
                          data_end_date |-> data_end_date]
    /\ pc # "done" => logged = <<>>

C12_LogSinkRaisedAndResultReturned ==
    /\ pc = "done" /\ Len(logged) = 1 /\ logged[1].raised
    /\ result.sql = executed[Len(executed)].stmt
    /\ result.trials # <<>>

\* C13: after a terminal failure that follows the first race (guardrail
\* rejection, no SQL, exhausted repair) the caller still has the trials of
\* that race, with the kind and detail of the failure.
C13_TrialsAvailableAfterFailure ==
    (pc = "failed" /\ trials # <<>>) => (failure.kind # "" /\ result.trials = trials)

\* C14: on success QueryResult.sql is the statement of the last dbx.run_sql
\* call, and that call is the one that succeeded.
C14_ResultIsLastExecutedStatement ==
    pc = "done"
       => /\ executed # <<>>
          /\ result.sql = executed[Len(executed)].stmt
          /\ executed[Len(executed)].error = ""
          /\ \A i \in 1..(Len(executed) - 1) : executed[i].error # ""

C14_FixedStatementReturned ==
    /\ pc = "done" /\ Len(executed) = 2
    /\ executed[2].path = "fix"
    /\ executed[2].stmt # executed[1].stmt
    /\ result.sql = executed[2].stmt

\* The text holds store_id = '<store>', bare, qualified or joined to the
\* word before it.
ContainsStorePredicate(low, store) ==
    \E i \in 1..(Len(low) - 2) :
        /\ \/ low[i][1] = "w" /\ low[i][2] \in {"store_id", "wherestore_id"}
           \/ low[i][1] = "ref" /\ low[i][3] = "store_id"
        /\ low[i + 1] = W("=")
        /\ low[i + 2] = LowTok(Lit(store))

\* C15: the final statement of every successful run_query holds the
\* predicate store_id = '<S>' for the caller's store S, whatever the winner
\* wrote.
C15_FinalStatementScopedToStore ==
    pc = "done" => ContainsStorePredicate(LowText(result.sql), StoreId)

\* C16: the rewrite sequence is idempotent on every text that passes the
\* validator, rewrite(rewrite(s)) = rewrite(s), and each of the three
\* transforms returns its own output unchanged (replace_current_date says
\* "no change" with None).
C16_RewriteIsIdempotent ==
    Validated(applied.arg)
       => /\ applied.f \in {"rewrite", "ensure_store_filter", "ensure_limit"}
                => applied.again = applied.out
          /\ applied.f = "replace_current_date" => applied.again \in {applied.out, None}

\* The text holds a comparison of the column store_id, bare or qualified,
\* in any letter case, with a quoted value.
HasStoreIdComparison(text) ==
    \E i \in 1..(Len(text) - 2) :
        /\ \/ text[i][1] = "w" /\ Lower(text[i][2]) = "store_id"
           \/ text[i][1] = "ref" /\ Lower(text[i][3]) = "store_id"
        /\ text[i + 1] = W("=")
        /\ text[i + 2][1] \in {"lit", "cast"}

HasLimitWord(text) == \E i \in 1..Len(text) : text[i][1] = "w" /\ Lower(text[i][2]) = "limit"

\* GROUP BY, or a call of SUM, AVG, COUNT, MAX or MIN.
AggregateShaped(text) ==
    \E i \in 1..(Len(text) - 1) :
        /\ text[i][1] = "w" /\ text[i + 1][1] = "w"
        /\ \/ Lower(text[i][2]) = "group" /\ Lower(text[i + 1][2]) = "by"
           \/ Lower(text[i][2]) \in {"sum", "avg", "count", "max", "min"} /\ text[i + 1][2] = "("

WithoutOneTerminator(text) ==
    IF text # Empty /\ text[Len(text)] = W(";") THEN SubSeq(text, 1, Len(text) - 1) ELSE text

\* C18: ensure_limit returns the text unchanged when it holds a LIMIT, and
\* when it holds no LIMIT but GROUP BY or an aggregate call; otherwise it
\* strips one trailing terminator and appends LIMIT <default>.
C18_LimitAppendedUnlessLimitedOrAggregate ==
    applied.f = "ensure_limit"
       => applied.out =
             IF HasLimitWord(applied.arg) \/ AggregateShaped(applied.arg) THEN applied.arg
             ELSE WithoutOneTerminator(applied.arg) \o <<W("LIMIT"), W("200")>>

C18_AggregateLeftUnchanged ==
    /\ applied.f = "ensure_limit"
    /\ ~HasLimitWord(applied.arg) /\ AggregateShaped(applied.arg)
    /\ applied.arg[Len(applied.arg)] = W(";")
    /\ applied.out = applied.arg

\* The token reads the wall clock: CURRENT_DATE, NOW() or CURRENT_TIMESTAMP
\* (also under a cast), in any letter case.
WallClock(t) ==
    t[1] = "w" /\ Lower(t[2]) \in {"current_date", "now()", "current_timestamp",
                                   "current_timestamp::date"}

\* C19: with an anchor date replace_current_date turns every CURRENT_DATE,
\* NOW() and CURRENT_TIMESTAMP, in any letter case, into a constant of the
\* anchor and leaves the rest of the text alone, so that
\* "... WHERE date = CURRENT_DATE" anchored at 2024-12-01 becomes
\* "... WHERE date = '2024-12-01'::date" and no wall-clock reference
\* remains; without an anchor the text is returned unchanged.
C19_WallClockAnchored ==
    applied.f = "replace_current_date"
       => IF applied.base_date = "" THEN applied.out = applied.arg
          ELSE IF \E i \in 1..Len(applied.arg) : WallClock(applied.arg[i])
          THEN /\ Len(applied.out) = Len(applied.arg)
               /\ \A i \in 1..Len(applied.arg) :
                     IF WallClock(applied.arg[i])
                     THEN applied.out[i][1] = "cast" /\ applied.out[i][2] = applied.base_date
                     ELSE applied.out[i] = applied.arg[i]
               /\ applied.arg = T_date
                     => applied.out[Len(T_date)] = Cast(applied.base_date, "date")
          ELSE OrKeep(applied.out, applied.arg) = applied.arg

C19_CurrentDateAnchored ==
    /\ applied.f = "replace_current_date"
    /\ applied.arg = T_date /\ applied.base_date = "2024-12-01"
    /\ applied.out = SubSeq(T_date, 1, Len(T_date) - 1) \o <<Cast("2024-12-01", "date")>>

\* The text, less one trailing terminator, begins with select or with in
\* any letter case and holds no further terminator.
ShapeAccepted(text) ==
    /\ text # Empty
    /\ text[1][1] \in {"w", "ref"}
    /\ Lower(text[1][2]) \in {"select", "with", "selected", "within"}
    /\ \A i \in 1..Len(text) : text[i] \notin {W(";"), W(";--")}

\* C20: looks_select_only accepts a text exactly when, less at most one
\* trailing terminator, it begins with select or with (in any letter case)
\* and holds no further terminator.
C20_ShapeCheck ==
    applied.f = "looks_select_only"
       => (applied.ok <=> ShapeAccepted(WithoutOneTerminator(applied.arg)))

C20_TrailingTerminatorAccepted ==
    /\ applied.f = "looks_select_only"
    /\ applied.arg = Q_semi
    /\ applied.ok

\* The qualified references of a lower-cased text, a bare star included.
QualifiedRefs(low) ==
    {<<low[i][2], low[i][3]>> : i \in {j \in 1..Len(low) : low[j][1] = "ref"}}

\* The problems of the references refs under the bindings entries: an alias
\* bound to no allow-listed object, or a column other than a bare star that
\* the bound object does not have.
RefProblems(entries, refs) ==
    {<<"Undefined alias", r[1], "">> :
        r \in {x \in refs : x[1] \notin {e[1] : e \in entries}}}
    \cup {<<"not in", r[1], r[2]>> :
        r \in {x \in refs : /\ x[1] \in {e[1] : e \in entries}
                            /\ x[2] # "*"
                            /\ x[2] \notin COLUMNS(alias_of_(entries, x[1]))}}

ProblemsOf(low) == RefProblems(AliasEntries(low), QualifiedRefs(low))

\* C21: columns_exist fails exactly when some alias.column reference of the
\* statement uses an alias bound to no allow-listed object or names a
\* column, other than a bare star, that the bound object does not have; all
\* distinct problems are reported together; select z.foo from stores s
\* fails and select s.store_id from stores s passes.
C21_ColumnCheckFailsExactlyOnBadReferences ==
    applied.f = "columns_exist"
       => /\ applied.ok <=> ProblemsOf(LowText(applied.arg)) = {}
          /\ applied.problems = ProblemsOf(LowText(applied.arg))
          /\ applied.arg = Q_col => ~applied.ok
          /\ applied.arg = Q_plain => applied.ok

\* Words of the statement syntax, which are no alias.
SqlKeywords ==
    {"select", "from", "where", "join", "on", "as", "group", "order", "by", "having",
     "limit", "and", "or", "with"}

\* Token i of the lower-cased text names an allow-listed object that the
\* statement reads.
ReadsObjectAt(low, i) ==
    /\ i > 1 /\ i <= Len(low)
    /\ low[i - 1] \in {W("from"), W("join")}
    /\ low[i][1] = "w"
    /\ low[i][2] \in {AllowedObjects[k] : k \in 1..Len(AllowedObjects)}

IsAliasAt(low, i) ==
    i <= Len(low) /\ low[i][1] = "w" /\ low[i][2] \notin (SqlKeywords \cup NonIdent)

\* The names a statement declares, each with the object it stands for: the
\* object's own name, an alias written after it (with or without "as"), and
\* the name of a common table expression that selects all of the object.
DeclaredNames(low) ==
    {<<low[i][2], low[i][2]>> : i \in {j \in 1..Len(low) : ReadsObjectAt(low, j)}}
    \cup {<<low[i + 1][2], low[i][2]>> :
            i \in {j \in 1..Len(low) : ReadsObjectAt(low, j) /\ IsAliasAt(low, j + 1)}}
    \cup {<<low[i + 2][2], low[i][2]>> :
            i \in {j \in 1..Len(low) : /\ ReadsObjectAt(low, j)
                                       /\ j + 2 <= Len(low) /\ low[j + 1] = W("as")
                                       /\ IsAliasAt(low, j + 2)}}
    \cup {<<low[i][2], low[i + 6][2]>> :
            i \in {j \in 2..(Len(low) - 7) :
                      /\ low[j - 1] = W("with") /\ IsAliasAt(low, j)
                      /\ SubSeq(low, j + 1, j + 5) = Ws(<<"as", "(", "select", "*", "from">>)
                      /\ ReadsObjectAt(low, j + 6)
                      /\ low[j + 7] = W(")")}}

\* A single read-only statement over allow-listed objects whose qualified
\* references use only names it declares and columns the named object has.
StandardStatement_(text, low, declared) ==
    /\ looks_select_only(text) /\ ~contains_bad(text)
    /\ ReferencedObjects(low)
          \subseteq ({AllowedObjects[k] : k \in 1..Len(AllowedObjects)}
                        \cup {d[1] : d \in declared})
    /\ \E i \in 1..Len(low) : ReadsObjectAt(low, i)
    /\ \A r \in QualifiedRefs(low) :
          \E d \in declared : d[1] = r[1] /\ (r[2] = "*" \/ r[2] \in COLUMNS(d[2]))

StandardStatement(text) ==
    StandardStatement_(text, LowText(text), DeclaredNames(LowText(text)))

\* C22: columns_exist never rejects a syntactically standard statement over
\* allow-listed objects that uses only aliases the statement declares and
\* only columns of the aliased objects.
C22_NoFalseRejection ==
    (applied.f = "columns_exist" /\ StandardStatement(applied.arg)) => applied.ok

\* 1 for a condition that holds, 0 for one that does not.
OneIf(b) == IF b THEN 1 ELSE 0

ScoreTerms(cand) ==
    OneIf(cand # Empty)
    + OneIf(cand # Empty /\ looks_select_only(cand))
    + OneIf(cand # Empty /\ mentions_allowed_objects(cand))

\* C23: grounding_score is 1 for a candidate that is extracted and not
\* empty, plus 1 when that candidate passes the shape check, plus 1 when it
\* mentions an allowed object: an integer of 0..3 that is 0 exactly when no
\* candidate is extracted, whatever the column check says.
C23_ScoreIsSumOfThreeTerms ==
    applied.f = "grounding_score"
       => /\ applied.score = ScoreTerms(Candidate(applied.arg))
          /\ applied.score \in 0..3
          /\ applied.score = 0 <=> Candidate(applied.arg) = Empty

C23_FullScoreWithUnknownAlias ==
    /\ applied.f = "grounding_score"
    /\ applied.arg = Fenced(Q_col)
    /\ ~columns_exist(Candidate(applied.arg))
    /\ applied.score = 3

IsFence(t) == t \in {W("<fence>"), W("<fence>sql")}

\* Tokens i and j delimit the first block tagged as SQL: i is the first
\* tagged fence with a fence after it, j the first fence after i.
FirstTaggedBlock(low, i, j) ==
    /\ i < j /\ low[i] = W("<fence>sql") /\ IsFence(low[j])
    /\ \A h \in (i + 1)..(j - 1) : ~IsFence(low[h])
    /\ \A h \in 1..(i - 1) : ~(low[h] = W("<fence>sql"))

SelectTokens(low) == {i \in 1..Len(low) : low[i] = W("select")}

Extracted(text, low, out) ==
    IF \E i, j \in 1..Len(low) : FirstTaggedBlock(low, i, j)
    THEN \E i, j \in 1..Len(low) :
            FirstTaggedBlock(low, i, j) /\ out = SubSeq(text, i + 1, j - 1)
    ELSE IF SelectTokens(low) # {}
    THEN \E i \in SelectTokens(low) :
            /\ \A h \in SelectTokens(low) : i <= h
            /\ out = SubSeq(text, i, Len(text))
    ELSE out = None

\* C24: extract_sql returns the content of the first fenced block tagged as
\* SQL when the text has one, else the text from its first select token (in
\* any letter case) to its end, else the no-candidate value.
C24_ExtractionOrder ==
    applied.f = "extract_sql" => Extracted(applied.arg, LowText(applied.arg), applied.out)

C24_FirstBlockWins ==
    /\ applied.f = "extract_sql"
    /\ applied.arg = Fenced(Q_semi) \o A_none \o Fenced(Q_obj)
    /\ applied.out = Q_semi

\* The first token that is the word where, in any letter case; 0 if none.
WhereIdx(low) == FirstIdx({i \in 1..Len(low) : low[i] = W("where")})

\* Where the clauses after the predicate start: the first group by, having,
\* order by, limit or terminator after token w, or the end of the text.
ClausesIdx(low, w) ==
    Min({i \in (w + 1)..Len(low) :
            \/ low[i] \in {W("having"), W("limit"), W(";")}
            \/ low[i] \in {W("group"), W("order")} /\ i < Len(low) /\ low[i + 1] = W("by")}
        \cup {Len(low) + 1})

\* The store predicates: the column bare or qualified by an alias of the text.
StorePredicates(low, store_id) ==
    {StorePredicate(a, store_id) : a \in {""} \cup {IdentPrefix(low[i]) : i \in 1..Len(low)}}

WherePredicateWrapped(text, w, e, out, preds) ==
    \E pred \in preds :
        out = SubSeq(text, 1, w) \o pred \o <<W("AND"), W("(")>> \o SubSeq(text, w + 1, e - 1)
              \o <<W(")")>> \o SubSeq(text, e, Len(text))

\* C28: for a statement with a WHERE clause and no store_id predicate,
\* ensure_store_filter returns the statement with the condition
\* <store predicate> AND (<original predicate>): the parentheses hold the
\* original predicate only, and the clauses after it (group by, having,
\* order by, limit) follow them unchanged.
C28_OnlyPredicateWrapped ==
    (/\ applied.f = "ensure_store_filter"
     /\ WhereIdx(LowText(applied.arg)) # 0
     /\ ~HasStoreIdComparison(applied.arg))
       => WherePredicateWrapped(applied.arg, WhereIdx(LowText(applied.arg)),
              ClausesIdx(LowText(applied.arg), WhereIdx(LowText(applied.arg))),
              applied.out, StorePredicates(LowText(applied.arg), StoreId))

\* The messages a repair race is seeded with: the original messages, the
\* failing statement and the raw error text.
RepairSeed(stmt, error) ==
    build_messages \o <<Message("assistant", "", Fenced(stmt)), Message("user", error, Empty)>>

\* The deterministic fix of the first execution's statement is missing or
\* fails the Guardrail Validator.
FixMissingOrInvalid(fix) == fix = None \/ ~Validated(fix)

FallsThroughToRepairRace(stmt, error) ==
    /\ pc # "exec_fix"
    /\ \A i \in Sends : executed[i].path # "fix"
    /\ races = 2
    /\ messages = RepairSeed(stmt, error)

\* C25: after a failed first execution the deterministic fixer runs first
\* and once; when it changes nothing, or its result fails re-validation,
\* run_query goes on to exactly one repair race, seeded with the original
\* messages, the failing statement and the raw error text.
C25_FixerFirstThenOneRepairRace ==
    /\ fixes <= 1 /\ races <= 2
    /\ races = 2 => fixes = 1
    /\ (fixes = 1 /\ FixMissingOrInvalid(repair_known_errors(executed[1].stmt, executed[1].error)))
          => FallsThroughToRepairRace(executed[1].stmt, executed[1].error)

\* A provider request is under way.
SomeRunning == \E m \in Units : unit[m].st = "running"

\* run_query is at a call of the Execution Gateway.
AtGateway == pc \in {"exec", "exec_fix", "exec_repair"}

\* C26: within one run_query the repair race starts only after the first
\* race has completed and the first gateway call has failed, and it has
\* completed before the second gateway call starts; no provider request
\* is under way during a gateway call, and the requests of the two races do
\* not overlap.
C26_RepairRaceIsSequential ==
    /\ AtGateway => ~SomeRunning
    /\ SomeRunning => pc \in {"race", "failed"}
    /\ (SomeRunning /\ pc = "failed") => failure.kind = "transport"
    /\ (pc = "race" /\ races = 1) => executed = <<>>
    /\ races = 2 => /\ Len(trials) = Len(MODELS)
                    /\ Len(executed) >= 1 /\ executed[1].error # ""
    /\ (pc = "race" /\ races = 2) => Len(executed) = 1
    /\ pc = "exec_repair" => (races = 2 /\ AllDone)

C26_RepairRaceDoneBeforeSecondCall ==
    /\ pc = "exec_repair"
    /\ races = 2 /\ AllDone
    /\ Len(executed) = 1 /\ executed[1].error # ""

\* The most HTTP attempts of one provider request: the first and one per
\* entry of the backoff schedule.
MostAttempts == Len(backoffs) + 1

BoundedRequest(c) ==
    /\ c.posts <= MostAttempts
    /\ Len(c.slept) <= Len(backoffs)
    /\ c.slept = SubSeq(backoffs, 1, Len(c.slept))
    /\ Len(c.slept) <= c.errors
    /\ c.st \in {"idle", "posting"} => c.posts = Len(c.slept)
    /\ c.st = "ended" => c.posts = Len(c.slept) + 1
    /\ c.ended = "returned" => c.errors = c.posts - 1
    /\ c.ended = "transport" => (c.errors = MostAttempts /\ c.slept = backoffs)

\* C27: call_openrouter_sync makes at most 4 HTTP attempts, one first and
\* one per entry of the backoff schedule 0.4, 0.8, 1.6 s; it tries again only
\* after a transport error and a sleep of the next backoff, returns on the
\* first attempt that succeeds, and after the last failed attempt raises
\* the error without another sleep.
C27_BoundedAttempts ==
    /\ MostAttempts = 4
    /\ backoffs = <<4, 8, 16>>
    /\ \A m \in Units : BoundedRequest(client[m])

C27_ExhaustedAfterFourAttempts ==
    \E m \in Units :
        /\ client[m].ended = "transport"
        /\ client[m].posts = 4
        /\ client[m].slept = <<4, 8, 16>>

\* C29: when the deterministic fix passes the handler's check and its
\* execution, the second gateway call, fails, run_query ends with that
\* second error and starts no repair race: a run_query takes the
\* deterministic path or the model-assisted path, never both.
C29_FailedFixEndsRun ==
    /\ pc = "exec_fix" => races = 1
    /\ \A i \in Sends :
          executed[i].path = "fix"
             => /\ races = 1 /\ repaired = NoTrial
                /\ i = Len(executed)
                /\ \A j \in Sends : executed[j].path # "repair"
                /\ executed[i].error # ""
                      => (pc = "failed" /\ failure = Raise("execution", executed[i].error))

C29_ValidFixFailedAtGateway ==
    /\ Len(executed) = 2
    /\ executed[2].path = "fix"
    /\ Validated(executed[2].cand)
    /\ executed[2].error # "" /\ executed[2].error # executed[1].error
    /\ pc = "failed" /\ failure.detail = executed[2].error
    /\ races = 1

\* C30: after a successful model-assisted repair the QueryResult and the
\* log sink get the winner and the trials of the first race (the trial
\* whose candidate was executed first and failed); what the repair race
\* returned is dropped, although its winner wrote the executed statement.
C30_FirstRaceReported ==
    (pc = "done" /\ races = 2)
       => /\ Len(executed) = 2 /\ executed[2].path = "repair"
          /\ result.winner = winner /\ result.trials = trials
          /\ winner = SelectWinner(trials, winner_pref)
          /\ Candidate(winner.text) = executed[1].cand
          /\ Candidate(repaired.text) = executed[2].cand
          /\ Len(logged) = 1
          /\ logged[1].chosen_model = winner.model
          /\ logged[1].latency_ms = winner.latency_ms
          /\ logged[1].cost_usd = winner.cost_usd
          /\ logged[1].trials = trials

C30_WinnerDidNotWriteExecutedStatement ==
    /\ pc = "done" /\ races = 2
    /\ result.winner = winner
    /\ result.winner.model # repaired.model
    /\ Candidate(result.winner.text) # executed[2].cand
    /\ result.sql = executed[2].stmt

====
